---- MODULE Spec2Model ----
(***************************************************************************)
(* LapceSplitNew (core/src/split.rs): the split container that owns an     *)
(* ordered list of child panes, and the handlers of the commands that      *)
(* insert, remove, swap and focus them, together with the parts of         *)
(* LapceTabData those handlers read and write (the editor registry         *)
(* main_split, the terminal registry, the focus fields).                   *)
(*                                                                         *)
(* One container is modelled. `role` says which split of the application   *)
(* it is: the main editor split (its commands come from editor panes) or   *)
(* the terminal panel's split (its commands come from terminal panes).     *)
(* Vec indices are 0-based as in the source; a TLA+ sequence s holds the   *)
(* element of index i at s[i + 1].                                         *)
(***************************************************************************)
EXTENDS Integers, Sequences, FiniteSets, TLC

VARIABLES
    role,            \* which split this container is: "editor" or "terminal"
    children,        \* self.children: Vec<ChildWidgetNew>
    children_ids,    \* self.children_ids: Vec<WidgetId>
    direction,       \* self.direction
    commands,        \* self.commands: the cached empty-state affordances
    editors,         \* data.main_split.editors: view id -> editor data
    editors_order,   \* data.main_split.editors_order
    active,          \* data.main_split.active: Option<WidgetId>
    terminals,       \* data.terminal.terminals: term id -> terminal data
    terminal_active, \* data.terminal.active, data.terminal.active_term_id
    panel_shown,     \* shown flag of the panel whose active kind is Terminal
    focus,           \* data.focus, data.focus_area
    fresh,           \* how many ids WidgetId::next()/TermId::next() have handed out
    fault,           \* "none", or the panic that ended the process
    ctx,             \* what the last handler did to its EventCtx
    built,           \* the ids of the children the builder got
    last,            \* the command handled last: its name, its target,
                     \* whether a child had the target's id when it arrived,
                     \* and the direction of a SplitEditorMove or the
                     \* flag of an InitTerminalPanel
    laid             \* what the layout pass run since that command returned

vars == <<role, children, children_ids, direction, commands, editors,
          editors_order, active, terminals, terminal_active, panel_shown,
          focus, fresh, fault, ctx, built, last, laid>>

----------------------------------------------------------------------------
(* Bounds of the model. *)

\* ids WidgetId::next() hands out after construction at most
MaxFresh == 1
\* children the container holds at most
MaxChildren == 2

----------------------------------------------------------------------------
(* Identities. *)

\* self.split_id
SplitId == 0

\* Option<T>
None == <<>>
Some(x) == <<x>>

\* an editor the registry holds that the builder did not get: the
\* application adds it later (SplitAddEditor), or it lives in another split
OtherEditor == 2

\* the n-th id handed out after construction (WidgetId::next())
FreshId(n) == OtherEditor + n

\* the id of the k-th child the builder gets: the first has the least id,
\* the later ones ids that are neither OtherEditor nor handed out later
BuilderId(k) == IF k = 1 THEN 1 ELSE FreshId(MaxFresh) + (k - 1)

\* every id a command can name
AllIds == 1..FreshId(MaxFresh)

\* child.widget.id() of the view built for pane `id` (LapceEditorView,
\* LapceTerminalView report the id of their data)
WidgetIdOf(id) == id

\* the TermId of the terminal whose widget id is w: LapceTerminalData::new
\* draws both in the same call
TermIdOf(w) == w

----------------------------------------------------------------------------
(* Vec operations. *)

Range(s) == {s[k] : k \in 1..Len(s)}

\* Vec::insert(index, e); the caller checks index <= len
VecInsert(s, index, e) ==
    SubSeq(s, 1, index) \o <<e>> \o SubSeq(s, index + 1, Len(s))

\* a remove that always takes the first element, as `remove(0)` does
VecRemoveFirst(s, index) ==
    SubSeq(s, 2, Len(s))

\* Vec::remove(index)
VecRemove(s, index) ==
    SubSeq(s, 1, index) \o SubSeq(s, index + 2, Len(s))

\* Vec::swap(i, j)
VecSwap(s, i, j) ==
    [k \in 1..Len(s) |-> IF k = i + 1 THEN s[j + 1]
                         ELSE IF k = j + 1 THEN s[i + 1] ELSE s[k]]

\* map.remove(&k)
MapRemove(m, k) == [x \in (DOMAIN m) \ {k} |-> m[x]]

\* map.insert(k, v)
MapInsert(m, k, v) == [x \in (DOMAIN m) \cup {k} |-> IF x = k THEN v ELSE m[x]]

EmptyMap == [x \in {} |-> 0]

----------------------------------------------------------------------------
(* Children. *)

\* f64: <<n, d>> with d > 0 is the number n/d in lowest terms, <<1, 0>> and
\* <<-1, 0>> are the infinities and <<0, 0>> is NaN; rounding is left out
F(n) == <<n, 1>>
NaN == <<0, 0>>
Sign(n) == IF n > 0 THEN 1 ELSE IF n < 0 THEN -1 ELSE 0
Abs(n) == IF n < 0 THEN -n ELSE n

RECURSIVE GCD(_, _)
GCD(a, b) == IF b = 0 THEN a ELSE GCD(b, a % b)

Norm(n, d) ==
    IF d = 0 THEN <<Sign(n), 0>>
    ELSE LET g == GCD(Abs(n), Abs(d))
         IN  <<(Sign(d) * n) \div g, Abs(d) \div g>>

\* a + b
f64_add(a, b) ==
    IF a[2] = 0 /\ b[2] = 0 THEN (IF a = b THEN a ELSE NaN)
    ELSE Norm(a[1] * b[2] + b[1] * a[2], a[2] * b[2])

\* a - b
f64_sub(a, b) == f64_add(a, <<-b[1], b[2]>>)

\* a * b
f64_mul(a, b) == Norm(a[1] * b[1], a[2] * b[2])

\* a / b
f64_div(a, b) ==
    f64_mul(a, IF b[1] = 0 THEN (IF b[2] = 0 THEN NaN ELSE <<1, 0>>)
               ELSE IF b[1] < 0 THEN <<-b[2], -b[1]>> ELSE <<b[2], b[1]>>)

\* a > b
f64_gt(a, b) ==
    /\ a # NaN /\ b # NaN
    /\ IF a[2] = 0 \/ b[2] = 0 THEN a # b /\ (a = <<1, 0>> \/ b = <<-1, 0>>)
       ELSE a[1] * b[2] > b[1] * a[2]

\* Size, Point
Size(width, height) == [width |-> width, height |-> height]
Point(x, y) == [x |-> x, y |-> y]

\* f64::min, f64::max: of a number and NaN, the number
f64_min(a, b) ==
    IF a = NaN THEN b ELSE IF b = NaN THEN a ELSE IF f64_gt(a, b) THEN b ELSE a
f64_max(a, b) ==
    IF a = NaN THEN b ELSE IF b = NaN THEN a ELSE IF f64_gt(b, a) THEN b ELSE a

\* Rect::abs: the same rectangle with non-negative width and height
rect_abs(r) ==
    [x0 |-> f64_min(r.x0, r.x1), y0 |-> f64_min(r.y0, r.y1),
     x1 |-> f64_max(r.x0, r.x1), y1 |-> f64_max(r.y0, r.y1)]

\* Rect::from_origin_size: from_points(origin, origin + size), which takes
\* the abs of the rectangle with these two corners
from_origin_size(point, size) ==
    rect_abs([x0 |-> point.x, y0 |-> point.y,
              x1 |-> f64_add(point.x, size.width),
              y1 |-> f64_add(point.y, size.height)])

\* a with_size that adds the size to the one the rectangle has
with_size_grown(r, size) ==
    [x0 |-> r.x0, y0 |-> r.y0,
     x1 |-> f64_add(r.x1, size.width), y1 |-> f64_add(r.y1, size.height)]

\* Rect::size, Rect::with_size, Rect::with_origin
rect_size(r) == Size(f64_sub(r.x1, r.x0), f64_sub(r.y1, r.y0))

with_size(r, size) ==
    from_origin_size(Point(r.x0, r.y0), size)

with_origin(r, point) ==
    from_origin_size(point, rect_size(r))

\* Rect::ZERO
RectZero == [x0 |-> F(0), y0 |-> F(0), x1 |-> F(0), y1 |-> F(0)]

\* ChildWidgetNew { widget, flex, params, layout_rect }
ChildWidgetNew(wid, flex, params) ==
    [wid |-> wid, flex |-> flex, params |-> params, layout_rect |-> RectZero]

\* the builder's arguments: (flex, params)
BuilderArgs == {<<TRUE, 1>>, <<TRUE, 2>>, <<FALSE, 45>>}

\* an index search without the `break`: the last position holding widget_id
find_index_no_break(ids, widget_id) ==
    IF \E k \in 1..Len(ids) : ids[k] = widget_id
    THEN (CHOOSE k \in 1..Len(ids) :
              /\ ids[k] = widget_id
              /\ \A j \in (k + 1)..Len(ids) : ids[j] # widget_id) - 1
    ELSE 0

\* an index search whose loop never assigns: the index stays 0
find_index_unset(ids, widget_id) ==
    0

\* the index search every handler starts with: the first position holding
\* widget_id, and 0 when no position holds it
find_index(ids, widget_id) ==
    IF \E k \in 1..Len(ids) : ids[k] = widget_id
    THEN (CHOOSE k \in 1..Len(ids) :
              /\ ids[k] = widget_id
              /\ \A j \in 1..(k - 1) : ids[j] # widget_id) - 1
    ELSE 0

\* an insert that always puts the new child last
insert_flex_child_last(ch, ids, index, wid, child_id, params) ==
    [children     |-> ch \o <<[wid |-> wid, flex |-> TRUE, params |-> params,
                               layout_rect |-> RectZero]>>,
     children_ids |-> ids \o <<child_id>>]

\* an insert that pushes the identity at the end of children_ids
insert_flex_child_id_pushed(ch, ids, index, wid, child_id, params) ==
    [children     |-> VecInsert(ch, index, ChildWidgetNew(wid, TRUE, params)),
     children_ids |-> Append(ids, child_id)]

\* insert_flex_child: the new child goes into both lists at `index`
insert_flex_child(ch, ids, index, wid, child_id, params) ==
    [children     |-> VecInsert(ch, index, ChildWidgetNew(wid, TRUE, params)),
     children_ids |-> VecInsert(ids, index, child_id)]

\* an evening that leaves every weight as it is
even_flex_children_skipped(ch) ==
    ch

\* an evening that takes fixed children for flexible ones
even_flex_children_all(ch) ==
    [k \in 1..Len(ch) |-> [ch[k] EXCEPT !.params = 1]]

\* even_flex_children
even_flex_children(ch) ==
    [k \in 1..Len(ch) |->
        IF ch[k].flex THEN [ch[k] EXCEPT !.params = 1] ELSE ch[k]]

----------------------------------------------------------------------------
(* Registry records. *)

\* the editor data the registry holds for editor e before any command
InitEditorData(e) ==
    [view_id |-> e, split_id |-> None, content |-> e, cursor |-> e,
     locations |-> <<e>>, scroll_offset |-> [x |-> e, y |-> 10 * e]]

\* LapceEditorData::new(None, Some(split_id), content, config)
LapceEditorDataNew(view_id, split_id, content) ==
    [view_id |-> view_id, split_id |-> Some(split_id), content |-> content,
     cursor |-> 0, locations |-> <<>>, scroll_offset |-> [x |-> 0, y |-> 0]]

\* LapceTerminalData::new(workspace, split_id, handle, proxy)
LapceTerminalDataNew(widget_id, split_id) ==
    [term_id |-> TermIdOf(widget_id), widget_id |-> widget_id,
     split_id |-> split_id]

----------------------------------------------------------------------------
(* EventCtx and history. *)

\* Command::new(LAPCE_UI_COMMAND, cmd, Target::Widget(target))
Command(cmd, arg, target) == [cmd |-> cmd, arg |-> arg, target |-> target]

\* an EventCtx nothing has been asked of
NoCtx == [submitted |-> <<>>, children_changed |-> 0, request_layout |-> 0,
          request_focus |-> 0, cursor |-> "kept", handled |-> FALSE]

\* ctx after submit_command of each of cmds, in order
Submitted(cmds) == [NoCtx EXCEPT !.submitted = cmds]

\* ... and children_changed() left out
SubmittedNotChanged(cmds) ==
    [NoCtx EXCEPT !.submitted = cmds]

\* ... and after children_changed()
SubmittedChanged(cmds) ==
    [NoCtx EXCEPT !.submitted = cmds, !.children_changed = 1]

\* the command handled last
Handled(op, target, arg) ==
    [op |-> op, target |-> target, found |-> target \in Range(children_ids),
     arg |-> IF op \in {"SplitEditorMove", "InitTerminalPanel", "MouseMove",
                         "MouseDown"}
             THEN arg ELSE None,
     order |-> IF op \in {"SplitEditor", "SplitEditorExchange"}
               THEN Some(editors_order) ELSE None]

\* the handler of command `op` runs
Handling(op, target, arg) ==
    /\ fault = "none"
    /\ last' = Handled(op, target, arg)
    /\ laid' = None
    /\ UNCHANGED <<role, direction, built>>

\* a handler that takes the focus for the container on its way
SameDataFocusTaken ==
    /\ UNCHANGED <<editors, editors_order, active, terminals, terminal_active,
                   panel_shown>>
    /\ focus' = [id |-> SplitId, area |-> "Editor"]

\* data and container as the handler leaves them when it touches neither
SameData ==
    UNCHANGED <<editors, editors_order, active, terminals, terminal_active,
                panel_shown, focus>>

SameContainer == UNCHANGED <<children, children_ids, commands>>

\* an early `return`
Return ==
    /\ SameData /\ SameContainer
    /\ UNCHANGED <<fresh, fault>>
    /\ ctx' = NoCtx

\* a panic: the process ends
Panic(kinds) ==
    /\ SameData /\ SameContainer
    /\ UNCHANGED fresh
    /\ ctx' = NoCtx
    /\ \E k \in kinds : fault' = k

----------------------------------------------------------------------------
(* Construction. *)

\* LapceSplitNew::new(split_id).direction(d) followed by n calls of
\* with_child / with_flex_child, the k-th with id ids[k] and arguments args[k]
Built(ids, args) ==
    [k \in 1..Len(ids) |-> ChildWidgetNew(WidgetIdOf(ids[k]), args[k][1], args[k][2])]

\* the builder chains: new() alone, and new() followed by one call of
\* with_child or with_flex_child
BuilderArgLists ==
    {<<>>} \cup {<<a>> : a \in BuilderArgs}

\* the editors registered when the container is constructed: the built
\* children of the editor split, and OtherEditor
InitEditorIds ==
    (IF role = "editor" THEN Range(children_ids) ELSE {}) \cup {OtherEditor}

\* data.focus, data.focus_area when the container is constructed: on the
\* container, or on an editor
InitFocus ==
    {[id |-> SplitId, area |-> "Editor"], [id |-> OtherEditor, area |-> "Editor"]}

\* the state after a builder chain out of `chains`
Constructed(chains) ==
    /\ role \in {"editor", "terminal"}
    /\ direction \in {"Vertical", "Horizontal"}
    /\ \E args \in chains :
          /\ children_ids = [k \in 1..Len(args) |-> BuilderId(k)]
          /\ children = Built(children_ids, args)
    /\ commands = <<>>
    /\ editors = [e \in InitEditorIds |-> InitEditorData(e)]
    /\ editors_order = IF role = "editor" THEN children_ids ELSE <<OtherEditor>>
    /\ active \in IF role = "editor"
                  THEN {IF children_ids = <<>> THEN None ELSE Some(children_ids[1])}
                  ELSE {None, Some(OtherEditor)}
    /\ terminals = EmptyMap
    /\ terminal_active = [active |-> None, active_term_id |-> None]
    /\ panel_shown = TRUE
    /\ focus \in InitFocus
    /\ fresh = 0
    /\ fault = "none"
    /\ ctx = NoCtx
    /\ built = children_ids
    /\ last = Handled("new", SplitId, None)
    /\ laid = None

Init == Constructed(BuilderArgLists)

----------------------------------------------------------------------------
(* The editor handlers. *)

\* the sibling split_editor_close and split_terminal_close hand the focus to
close_new_index(index, len) ==
    IF index >= len - 1 THEN index - 1 ELSE index + 1

\* split_editor_close(ctx, data, widget_id)
split_editor_close(widget_id) ==
    IF Len(children) = 0
    THEN Return
    ELSE LET index    == find_index(children_ids, widget_id)
             view_id  == children[index + 1].wid
             kept_ids == VecRemove(children_ids, index)
         IN  /\ IF Len(children) > 1
                THEN LET new_index == close_new_index(index, Len(children))
                     IN  /\ ctx' = SubmittedChanged(
                                 <<Command("Focus", None, children[new_index + 1].wid)>>)
                         /\ active' = active
                ELSE /\ active' = None
                     /\ ctx' = SubmittedChanged(<<Command("Focus", None, SplitId)>>)
             /\ editors' = MapRemove(editors, view_id)
             /\ children' = even_flex_children(VecRemove(children, index))
             /\ children_ids' = kept_ids
             /\ editors_order' = kept_ids
             /\ UNCHANGED <<terminals, terminal_active, panel_shown, focus,
                            commands, fresh, fault>>

SplitEditorClose(widget_id) ==
    /\ role = "editor"
    /\ Handling("SplitEditorClose", widget_id, None)
    /\ split_editor_close(widget_id)

\* the guards split_editor_exchange returns early on
exchange_returns(len, index) ==
    IF len <= 1 THEN TRUE ELSE index >= len - 1

\* an exchange that leaves the two lists as they are
exchange_swap_skipped(s, index) ==
    s

\* the swap split_editor_exchange applies to children and to children_ids
exchange_swap(s, index) == VecSwap(s, index, index + 1)

\* split_editor_exchange(ctx, data, widget_id)
split_editor_exchange(widget_id) ==
    LET index == find_index(children_ids, widget_id)
    IN  IF exchange_returns(Len(children), index)
        THEN Return
        ELSE LET new_child == children_ids[index + 2]
                 new_ids   == exchange_swap(children_ids, index)
             IN  /\ ctx' = [Submitted(<<Command("Focus", None, new_child)>>)
                               EXCEPT !.request_layout = 1]
                 /\ children' = exchange_swap(children, index)
                 /\ children_ids' = new_ids
                 /\ editors_order' = IF widget_id \in DOMAIN editors
                                     THEN new_ids ELSE editors_order
                 /\ UNCHANGED <<editors, active, terminals, terminal_active,
                                panel_shown, focus, commands, fresh, fault>>

SplitEditorExchange(widget_id) ==
    /\ Handling("SplitEditorExchange", widget_id, None)
    /\ split_editor_exchange(widget_id)

\* the directions a container of direction d moves along: <<previous, next>>
\* the two sides taken for each other
MoveAxisReversed(d) ==
    IF d = "Vertical" THEN <<"Right", "Left">> ELSE <<"Down", "Up">>

\* the directions of the other axis
MoveAxisCrossed(d) ==
    IF d = "Vertical" THEN <<"Up", "Down">> ELSE <<"Left", "Right">>

MoveAxis(d) ==
    IF d = "Vertical" THEN <<"Left", "Right">> ELSE <<"Up", "Down">>

SplitMoveDirection == {"Up", "Down", "Right", "Left"}

\* split_editor_move(ctx, data, direction, widget_id)
split_editor_move(dir, widget_id) ==
    LET index == find_index(children_ids, widget_id)
        axis  == MoveAxis(direction)
        go(new_index) ==
            IF new_index # index
            THEN /\ SameData /\ SameContainer
                 /\ UNCHANGED <<fresh, fault>>
                 /\ ctx' = Submitted(
                        <<Command("Focus", None, children_ids[new_index + 1]),
                          Command("EnsureCursorVisible", None,
                                  children_ids[new_index + 1])>>)
            ELSE Return
    IN  IF dir = axis[1]
        THEN IF index = 0 THEN Return ELSE go(index - 1)
        ELSE IF dir = axis[2]
        THEN IF Len(children) = 0
             \* children.len() - 1 on an empty Vec: the subtraction panics
             \* where overflow is checked, and wraps where it is not, and
             \* then children_ids[1] is out of range
             THEN Panic({"subtract_overflow", "index_out_of_bounds"})
             ELSE IF index >= Len(children) - 1 THEN Return ELSE go(index + 1)
        ELSE go(index)

SplitEditorMove(dir, widget_id) ==
    /\ Handling("SplitEditorMove", widget_id, Some(dir))
    /\ split_editor_move(dir, widget_id)

\* split_add_editor(ctx, data, widget_id)
split_add_editor(widget_id) ==
    IF widget_id \notin DOMAIN editors
    THEN Panic({"unwrap_none"})
    ELSE LET editor_data == editors[widget_id]
             ins == insert_flex_child(children, children_ids, 0,
                        WidgetIdOf(editor_data.view_id), editor_data.view_id, 1)
         IN  /\ children' = even_flex_children(ins.children)
             /\ children_ids' = ins.children_ids
             /\ editors_order' = ins.children_ids
             /\ ctx' = SubmittedChanged(<<Command("Focus", None, widget_id)>>)
             /\ UNCHANGED <<editors, active, terminals, terminal_active,
                            panel_shown, focus, commands, fresh, fault>>

SplitAddEditor(widget_id) ==
    /\ role = "editor"
    /\ Len(children) < MaxChildren
    /\ Handling("SplitAddEditor", widget_id, None)
    /\ split_add_editor(widget_id)

\* split_editor(ctx, data, vertical, widget_id)
split_editor(vertical, widget_id) ==
    LET index == find_index(children_ids, widget_id)
    IN  IF index >= Len(children)
        THEN Panic({"index_out_of_bounds"})
        ELSE IF children[index + 1].wid \notin DOMAIN editors
        THEN Panic({"unwrap_none"})
        ELSE LET from_editor == editors[children[index + 1].wid]
                 created == LapceEditorDataNew(FreshId(fresh + 1), SplitId,
                                               from_editor.content)
                 editor_data == [created EXCEPT
                                    !.cursor = from_editor.cursor,
                                    !.locations = from_editor.locations]
                 ins == insert_flex_child(children, children_ids, index + 1,
                            WidgetIdOf(editor_data.view_id), editor_data.view_id, 1)
             IN  /\ fresh' = fresh + 1
                 /\ ctx' = SubmittedChanged(
                        <<Command("ForceScrollTo", from_editor.scroll_offset,
                                  editor_data.view_id)>>)
                 /\ children' = even_flex_children(ins.children)
                 /\ children_ids' = ins.children_ids
                 /\ editors' = MapInsert(editors, editor_data.view_id, editor_data)
                 /\ editors_order' = ins.children_ids
                 /\ UNCHANGED <<active, terminals, terminal_active, panel_shown,
                                focus, commands, fault>>

SplitEditor(vertical, widget_id) ==
    /\ role = "editor"
    /\ fresh < MaxFresh
    /\ Len(children) < MaxChildren
    /\ Handling("SplitEditor", widget_id, Some(vertical))
    /\ split_editor(vertical, widget_id)

----------------------------------------------------------------------------
(* The terminal handlers. *)

\* split_terminal(ctx, data, vertical, widget_id)
split_terminal(vertical, widget_id) ==
    LET index == find_index(children_ids, widget_id)
        terminal_data == LapceTerminalDataNew(FreshId(fresh + 1), SplitId)
    IN  IF index + 1 > Len(children)
        THEN Panic({"insert_out_of_bounds"})
        ELSE LET ins == insert_flex_child(children, children_ids, index + 1,
                            WidgetIdOf(terminal_data.widget_id),
                            terminal_data.widget_id, 1)
             IN  /\ fresh' = fresh + 1
                 /\ terminals' = MapInsert(terminals, terminal_data.term_id,
                                           terminal_data)
                 /\ children' = even_flex_children(ins.children)
                 /\ children_ids' = ins.children_ids
                 /\ ctx' = SubmittedChanged(<<>>)
                 /\ UNCHANGED <<editors, editors_order, active, terminal_active,
                                panel_shown, focus, commands, fault>>

SplitTerminal(vertical, widget_id) ==
    /\ role = "terminal"
    /\ fresh < MaxFresh
    /\ Len(children) < MaxChildren
    /\ Handling("SplitTerminal", widget_id, Some(vertical))
    /\ split_terminal(vertical, widget_id)

\* the Focus split_terminal_close submits after it removed the only child
close_last_terminal_focus(main_active) ==
    IF main_active # None
    THEN <<Command("Focus", None, main_active[1])>>
    ELSE <<>>

\* split_terminal_close(ctx, data, term_id, widget_id)
split_terminal_close(term_id, widget_id) ==
    IF Len(children) = 0
    THEN Return
    ELSE IF Len(children) = 1
    THEN /\ terminals' = MapRemove(terminals, term_id)
         /\ children' = even_flex_children(VecRemove(children, 0))
         /\ children_ids' = VecRemove(children_ids, 0)
         /\ panel_shown' = FALSE
         /\ ctx' = SubmittedChanged(close_last_terminal_focus(active))
         /\ UNCHANGED <<editors, editors_order, active, terminal_active,
                        focus, commands, fresh, fault>>
    ELSE LET index     == find_index(children_ids, widget_id)
             new_index == close_new_index(index, Len(children))
             new_terminal_id == children_ids[new_index + 1]
         IN  /\ ctx' = SubmittedChanged(
                    <<Command("Focus", None, new_terminal_id)>>)
             /\ terminals' = MapRemove(terminals, term_id)
             /\ children' = even_flex_children(VecRemove(children, index))
             /\ children_ids' = VecRemove(children_ids, index)
             /\ UNCHANGED <<editors, editors_order, active, terminal_active,
                            panel_shown, focus, commands, fresh, fault>>

SplitTerminalClose(term_id, widget_id) ==
    /\ role = "terminal"
    /\ Handling("SplitTerminalClose", widget_id, Some(term_id))
    /\ split_terminal_close(term_id, widget_id)

\* a handler that notifies of a change whatever the registry holds
init_terminal_panel_renotifying(focus_it) ==
    /\ SameData /\ SameContainer
    /\ UNCHANGED <<fresh, fault>>
    /\ ctx' = SubmittedChanged(<<>>)

\* Widget::event, LapceUICommand::InitTerminalPanel(focus)
init_terminal_panel(focus_it) ==
    IF DOMAIN terminals = {}
    THEN LET terminal_data == LapceTerminalDataNew(FreshId(fresh + 1), SplitId)
             ins == insert_flex_child(children, children_ids, 0,
                        WidgetIdOf(terminal_data.widget_id),
                        terminal_data.widget_id, 1)
         IN  /\ fresh' = fresh + 1
             /\ children' = ins.children
             /\ children_ids' = ins.children_ids
             /\ ctx' = SubmittedChanged(
                    IF focus_it
                    THEN <<Command("Focus", None, terminal_data.widget_id)>>
                    ELSE <<>>)
             /\ terminal_active' = [active |-> Some(terminal_data.widget_id),
                                    active_term_id |-> Some(terminal_data.term_id)]
             /\ terminals' = MapInsert(terminals, terminal_data.term_id,
                                       terminal_data)
             /\ UNCHANGED <<editors, editors_order, active, panel_shown, focus,
                            commands, fault>>
    ELSE Return

InitTerminalPanel(focus_it) ==
    /\ role = "terminal"
    /\ DOMAIN terminals = {} => fresh < MaxFresh /\ Len(children) < MaxChildren
    /\ Handling("InitTerminalPanel", SplitId, Some(focus_it))
    /\ init_terminal_panel(focus_it)

\* Widget::event, LapceUICommand::Focus
focus_split ==
    /\ ctx' = [NoCtx EXCEPT !.request_focus = 1]
    /\ focus' = [id |-> SplitId, area |-> "Editor"]
    /\ SameContainer
    /\ UNCHANGED <<editors, editors_order, active, terminals, terminal_active,
                   panel_shown, fresh, fault>>

Focus ==
    /\ Handling("Focus", SplitId, None)
    /\ focus_split

----------------------------------------------------------------------------
(* Layout. *)

Min(S) == CHOOSE x \in S : \A y \in S : x <= y

\* LapceCommandNew { cmd, data, palette_desc, target }
LapceCommandNew(cmd, palette_desc) ==
    [cmd |-> cmd, data |-> None, palette_desc |-> palette_desc,
     target |-> "Workbench"]

\* LapceWorkbenchCommand::get_message: the message the command declares
get_message(cmd) == Some("message:" \o cmd)

\* a toggle that offers what is already in force
modal_toggle_swapped(modal) ==
    IF modal
    THEN LapceCommandNew("EnableModal", get_message("EnableModal"))
    ELSE LapceCommandNew("DisableModal", get_message("DisableModal"))

\* the modal toggle of both lists
modal_toggle(modal) ==
    IF modal
    THEN LapceCommandNew("DisableModal", get_message("DisableModal"))
    ELSE LapceCommandNew("EnableModal", get_message("EnableModal"))

no_workspace_commands(modal) ==
    <<LapceCommandNew("PaletteCommand", Some("Show All Commands")),
      modal_toggle(modal),
      LapceCommandNew("OpenFolder", Some("Open Folder")),
      LapceCommandNew("PaletteWorkspace", Some("Open Recent"))>>

workspace_commands(modal) ==
    <<LapceCommandNew("PaletteCommand", Some("Show All Commands")),
      modal_toggle(modal),
      LapceCommandNew("Palette", Some("Go To File"))>>

\* a list that does not look at the workspace
empty_editor_commands_any_workspace(modal, has_workspace) ==
    no_workspace_commands(modal)

empty_editor_commands(modal, has_workspace) ==
    IF ~has_workspace THEN no_workspace_commands(modal)
    ELSE workspace_commands(modal)

\* std::env::consts::OS
OSNames == {"macos", "windows", "linux"}

KeyPress(ctrl, alt, meta, shift, key) ==
    [ctrl |-> ctrl, alt |-> alt, meta |-> meta, shift |-> shift, key |-> key]

keybinding_to_string(keypress, os) ==
    (IF keypress.ctrl THEN "Ctrl+" ELSE "")
    \o (IF keypress.alt THEN "Alt+" ELSE "")
    \o (IF keypress.meta
        THEN (CASE os = "macos" -> "Cmd" [] os = "windows" -> "Win"
                [] OTHER -> "Meta") \o "+"
        ELSE "")
    \o (IF keypress.shift THEN "Shift+" ELSE "")
    \o keypress.key

\* the string layout builds of a keymap's key presses
RECURSIVE keymap_str(_, _, _)
keymap_str(key, os, str) ==
    IF key = <<>> THEN str
    ELSE keymap_str(Tail(key), os,
                    (IF str # "" THEN str \o " " ELSE str)
                        \o keybinding_to_string(Head(key), os))

\* the key layout finds for a command: the first keymap of the first group
\* that has one for it
find_key(keymaps, cmd, os) ==
    LET hits(g) == {i \in 1..Len(keymaps[g]) : keymaps[g][i].command = cmd}
        groups == {g \in 1..Len(keymaps) : hits(g) # {}}
    IN  IF groups = {} THEN None
        ELSE LET g == Min(groups)
             IN  Some(keymap_str(keymaps[g][Min(hits(g))].key, os, ""))

\* data.keypress.keymaps as the pass finds it
KeymapTables ==
    {<<>>,
     <<<<[command |-> "Palette",
          key |-> <<KeyPress(TRUE, FALSE, FALSE, FALSE, "P")>>]>>,
       <<[command |-> "OpenFolder",
          key |-> <<KeyPress(TRUE, FALSE, FALSE, FALSE, "K"),
                    KeyPress(FALSE, FALSE, TRUE, TRUE, "O")>>],
         [command |-> "Palette",
          key |-> <<KeyPress(FALSE, TRUE, FALSE, FALSE, "G")>>]>>>>}

\* bc.max() as the parent passes it
BoxMaxes == {Size(F(300), F(200)), Size(F(41), F(31)), Size(F(0), F(0))}

\* data.config.editor.line_height
LineHeights == {15}

\* the size the text engine gives a built text layout
TextSizes == {Size(F(100), F(17))}

\* what a child answers when it is measured: the maximum of its box, or a
\* size of its own
ChildAnswers == {"max", "own"}
OwnSize == Size(F(60), F(50))
child_layout(answer, size) == IF answer = "max" THEN size ELSE OwnSize

\* the empty state: the affordances layout caches
layout_commands(my_size, line_height, modal, has_workspace, keymaps, os, text_size) ==
    LET origin == Point(f64_div(my_size.width, F(2)),
                        f64_add(f64_div(my_size.height, F(2)), F(40)))
        cmds == empty_editor_commands(modal, has_workspace)
    IN  [n \in 1..Len(cmds) |->
            LET cmd == cmds[n]
                i == n - 1
                point == Point(f64_sub(origin.x, text_size.width),
                               f64_sub(origin.y,
                                       f64_mul(F(0 - line_height), F(i))))
                key == find_key(keymaps, cmd.cmd, os)
            IN  [cmd |-> cmd,
                 text_layout |-> cmd.palette_desc[1],
                 rect |-> with_origin(with_size(RectZero, text_size), point),
                 key_text_layout |->
                     IF key = None THEN "Unbound" ELSE key[1]]]

\* an axis that is the other one
main_axis_crossed(size) ==
    IF direction = "Vertical" THEN size.height ELSE size.width

main_axis(size) == IF direction = "Vertical" THEN size.width ELSE size.height

other_axis(size) == IF direction = "Vertical" THEN size.height ELSE size.width

\* the box a child is measured with: `extent` along the container's axis
child_box(extent, my_size) ==
    IF direction = "Vertical" THEN Size(extent, my_size.height)
    ELSE Size(my_size.width, extent)

\* a first loop that measures nothing and sets every child's params to 1
fixed_pass_reweighing(st, k, my_size, answers) ==
    [children |-> [i \in DOMAIN st.children |->
                      [st.children[i] EXCEPT !.params = 1]],
     non_flex_total |-> F(0), max_other_axis |-> F(0), calls |-> <<>>]

\* the first loop: the children that are not flex, from the k-th on
RECURSIVE fixed_pass(_, _, _, _)
fixed_pass(st, k, my_size, answers) ==
    IF k > Len(st.children) THEN st
    ELSE LET child == st.children[k]
             box == child_box(F(child.params), my_size)
             size == child_layout(answers[k], box)
         IN  IF child.flex THEN fixed_pass(st, k + 1, my_size, answers)
             ELSE fixed_pass(
                    [children |-> [st.children EXCEPT
                                     ![k].layout_rect = with_size(@, size)],
                     non_flex_total |->
                         f64_add(st.non_flex_total, main_axis(size)),
                     max_other_axis |->
                         IF f64_gt(other_axis(size), st.max_other_axis)
                         THEN other_axis(size) ELSE st.max_other_axis,
                     calls |-> Append(st.calls,
                                      [index |-> k - 1, wid |-> child.wid,
                                       max |-> box, size |-> size])],
                    k + 1, my_size, answers)

\* the second loop: the sum of the flex children's params
RECURSIVE flex_sum_of(_)
flex_sum_of(ch) ==
    IF ch = <<>> THEN F(0)
    ELSE LET rest == flex_sum_of(SubSeq(ch, 1, Len(ch) - 1))
             child == ch[Len(ch)]
         IN  IF child.flex THEN f64_add(rest, F(child.params)) ELSE rest

\* a share that leaves the child's own weight out
flex_share_unweighted(flex_total, flex_sum, params) ==
    f64_div(flex_total, flex_sum)

\* the share of the flexible space a flex child is measured with
flex_share(flex_total, flex_sum, params) ==
    f64_mul(f64_div(flex_total, flex_sum), F(params))

\* the third loop: measures the flex children and places every child, from
\* the k-th on
RECURSIVE place_pass(_, _, _, _, _, _)
place_pass(st, k, my_size, answers, flex_total, flex_sum) ==
    IF k > Len(st.children) THEN st
    ELSE LET child == st.children[k]
             box == child_box(flex_share(flex_total, flex_sum, child.params),
                              my_size)
             size == child_layout(answers[k], box)
             rect == IF child.flex
                     THEN with_size(with_origin(child.layout_rect,
                                                Point(st.x, st.y)), size)
                     ELSE with_origin(child.layout_rect, Point(st.x, st.y))
         IN  place_pass(
                [children |-> [st.children EXCEPT ![k].layout_rect = rect],
                 max_other_axis |->
                     IF child.flex /\ f64_gt(other_axis(size), st.max_other_axis)
                     THEN other_axis(size) ELSE st.max_other_axis,
                 x |-> IF direction = "Vertical"
                       THEN f64_add(st.x, rect_size(rect).width) ELSE st.x,
                 y |-> IF direction = "Vertical" THEN st.y
                       ELSE f64_add(st.y, rect_size(rect).height),
                 calls |-> IF child.flex
                           THEN Append(st.calls,
                                       [index |-> k - 1, wid |-> child.wid,
                                        max |-> box, size |-> size])
                           ELSE st.calls],
                k + 1, my_size, answers, flex_total, flex_sum)

\* layout with at least one child: the children with their rectangles, the
\* calls of child.widget.layout in the order layout makes them (the index
\* of the child, the box it was measured with, the size it answered), and
\* the size returned
layout_children(my_size, answers) ==
    LET fixed == fixed_pass([children |-> children, non_flex_total |-> F(0),
                             max_other_axis |-> F(0), calls |-> <<>>],
                            1, my_size, answers)
        flex_sum == flex_sum_of(children)
        flex_total == f64_sub(main_axis(my_size), fixed.non_flex_total)
        placed == place_pass([children |-> fixed.children,
                              max_other_axis |-> fixed.max_other_axis,
                              x |-> F(0), y |-> F(0), calls |-> fixed.calls],
                             1, my_size, answers, flex_total, flex_sum)
    IN  [children |-> placed.children,
         calls |-> placed.calls,
         size |-> IF direction = "Vertical"
                  THEN Size(placed.x, placed.max_other_axis)
                  ELSE Size(placed.max_other_axis, placed.y)]

\* what a pass leaves in `laid`: the constraints it got, the configuration it
\* read, the boxes it measured children with, and the size it returned
Pass(my_size, read, size, calls) ==
    Some([bc_max |-> my_size, read |-> read, size |-> size, calls |-> calls])

\* Widget::layout
Layout(my_size, answers, modal, has_workspace, line_height, keymaps, os, text_size) ==
    /\ fault = "none"
    /\ SameData
    /\ UNCHANGED <<role, direction, built, children_ids, fresh, ctx, last>>
    /\ IF Len(children) = 0
       THEN IF \E n \in DOMAIN empty_editor_commands(modal, has_workspace) :
                  empty_editor_commands(modal, has_workspace)[n].palette_desc
                      = None
            THEN /\ fault' = "unwrap_none"
                 /\ UNCHANGED <<children, commands, laid>>
            ELSE /\ commands' = layout_commands(my_size, line_height, modal,
                                                has_workspace, keymaps, os,
                                                text_size)
                 /\ laid' = Pass(my_size, <<modal, has_workspace>>, my_size,
                                 <<>>)
                 /\ UNCHANGED <<children, fault>>
       ELSE LET done == layout_children(my_size, answers)
            IN  /\ children' = done.children
                /\ laid' = Pass(my_size, <<>>, done.size, done.calls)
                /\ UNCHANGED <<commands, fault>>

----------------------------------------------------------------------------
(* The commands the application sends. *)

\* the panes a command can come from: the pane the builder got and every
\* pane created since, for the editor split also the editor the registry
\* holds besides; a pane closed since is among them
Targets ==
    Range(built) \cup {FreshId(n) : n \in 1..fresh}
        \cup (IF role = "editor" THEN {OtherEditor} ELSE {})

Next ==
    \/ \E w \in Targets : SplitAddEditor(w)
    \/ \E w \in Targets, v \in BOOLEAN : SplitEditor(v, w)
    \/ \E w \in Targets, d \in SplitMoveDirection : SplitEditorMove(d, w)
    \/ \E w \in Targets : SplitEditorExchange(w)
    \/ \E w \in Targets : SplitEditorClose(w)
    \/ \E w \in Targets, v \in BOOLEAN : SplitTerminal(v, w)
    \/ \E w \in Targets : SplitTerminalClose(TermIdOf(w), w)
    \/ \E f \in BOOLEAN : InitTerminalPanel(f)
    \/ Focus

Spec == Init /\ [][Next]_vars

\* a layout pass, with what the parent, the children, the configuration and
\* the text engine give it; what the pass does not read is not varied
LayoutPass ==
    \E my_size \in BoxMaxes, answers \in [1..Len(children) -> ChildAnswers] :
        IF Len(children) = 0
        THEN \E modal \in BOOLEAN, has_workspace \in BOOLEAN,
                line_height \in LineHeights, keymaps \in KeymapTables,
                os \in OSNames, text_size \in TextSizes :
                 Layout(my_size, answers, modal, has_workspace, line_height,
                        keymaps, os, text_size)
        ELSE \E line_height \in LineHeights, text_size \in TextSizes :
                 Layout(my_size, answers, FALSE, FALSE, line_height, <<>>,
                        "linux", text_size)

\* the layout pass, and the commands that take children away until the
\* container is empty
NextLayout ==
    \/ \E w \in Targets : SplitEditorClose(w)
    \/ \E w \in Targets : SplitTerminalClose(TermIdOf(w), w)
    \/ LayoutPass

SpecLayout == Init /\ [][NextLayout]_vars

\* the arguments of the builder calls of the containers that are measured:
\* those of BuilderArgs, and a flex child of weight 0
MeasureArgs == BuilderArgs \cup {<<TRUE, 0>>}

\* the builder chains of up to MaxChildren calls, among them search.rs's
\* with_child(input, None, 45.0).with_flex_child(scroll, None, 1.0)
MeasureArgLists ==
    UNION {[1..n -> MeasureArgs] : n \in 0..MaxChildren}

InitMeasure == Constructed(MeasureArgLists)

\* the first layout pass after construction. A pass writes every field of
\* every child's rectangle anew, and what it writes depends on the former
\* rectangle only through its size, which the pass has just set: a later
\* pass over the same children reaches no state a first pass does not reach
FirstLayoutPass ==
    /\ laid = None
    /\ LayoutPass

\* the first layout pass over the containers the longer builder chains give
SpecMeasure == InitMeasure /\ [][FirstLayoutPass]_vars

\* the containers with children, of the editor split, while the focus is
\* on the container: layout reads neither the role nor the focus
InitRelayout ==
    /\ InitMeasure
    /\ Len(children) > 0
    /\ role = "editor"
    /\ focus = [id |-> SplitId, area |-> "Editor"]

\* layout passes one after the other, with no command between them
SpecRelayout == InitRelayout /\ [][LayoutPass]_vars

\* the builder chain of a container with three flexible children of weight 1
ScenarioArgs == <<<<TRUE, 1>>, <<TRUE, 1>>, <<TRUE, 1>>>>

\* the editor split that chain gives
InitScenario ==
    /\ Constructed({ScenarioArgs})
    /\ role = "editor"

\* SplitEditor delivered to that container, once
ScenarioSplit ==
    \E w \in Targets, v \in BOOLEAN :
        /\ fresh < MaxFresh
        /\ Len(children) <= Len(ScenarioArgs)
        /\ Handling("SplitEditor", w, Some(v))
        /\ split_editor(v, w)

\* that container laid out, split and laid out again
SpecScenario == InitScenario /\ [][ScenarioSplit \/ LayoutPass]_vars

\* that container under Close, Exchange and one Split
NextRoundTrip ==
    \/ \E w \in Targets : SplitEditorClose(w)
    \/ \E w \in Targets : SplitEditorExchange(w)
    \/ ScenarioSplit

SpecRoundTrip == InitScenario /\ [][NextRoundTrip]_vars

\* Rect::contains: the left and top edges are inside, the right and bottom
\* edges are not
f64_ge(a, b) == a # NaN /\ b # NaN /\ ~f64_gt(b, a)

rect_contains(rect, point) ==
    /\ f64_ge(point.x, rect.x0) /\ f64_gt(rect.x1, point.x)
    /\ f64_ge(point.y, rect.y0) /\ f64_gt(rect.y1, point.y)

\* the indices of the cached affordances whose rectangle contains the point,
\* in the order of the cache
Containing(pos) == {n \in 1..Len(commands) : rect_contains(commands[n].rect, pos)}

\* a scan that goes on to the last match
last_containing(pos) == CHOOSE n \in Containing(pos) : \A m \in Containing(pos) : m <= n

\* for (cmd, _, rect, _) in &self.commands, up to the first match
first_containing(pos) == CHOOSE n \in Containing(pos) : \A m \in Containing(pos) : n <= m

\* mouse_event.pos: inside the first rectangle of a wide box, inside its
\* first two rectangles where they overlap, on their right edge, and inside
\* the first rectangle of a narrow box
MousePositions ==
    {Point(F(100), F(145)), Point(F(100), F(156)), Point(F(150), F(145)),
     Point(F(10), F(60))}

\* an event that is not a command: it leaves the container and the data as
\* they are
Event(op, arg) ==
    /\ fault = "none"
    /\ last' = Handled(op, SplitId, arg)
    /\ SameData
    /\ SameContainer
    /\ UNCHANGED <<role, direction, built, fresh, fault, laid>>

\* Event::MouseMove
MouseMove(pos) ==
    /\ Event("MouseMove", Some(pos))
    /\ ctx' = IF Len(children) = 0
              THEN [NoCtx EXCEPT !.cursor = IF Containing(pos) # {}
                                            THEN "Pointer" ELSE "cleared"]
              ELSE NoCtx

\* a click that is not looked at for emptiness
mouse_down_any(pos) ==
    IF Containing(pos) # {}
    THEN Submitted(<<Command("LapceNewCommand",
                             Some(commands[first_containing(pos)].cmd),
                             "Auto")>>)
    ELSE NoCtx

\* Event::MouseDown
mouse_down(pos) ==
    IF Len(children) = 0 /\ Containing(pos) # {}
    THEN Submitted(<<Command("LapceNewCommand",
                             Some(commands[first_containing(pos)].cmd),
                             "Auto")>>)
    ELSE NoCtx

MouseDown(pos) ==
    /\ Event("MouseDown", Some(pos))
    /\ ctx' = mouse_down(pos)

\* what KeyPressData::key_down submits for a key: nothing, or the command
\* the key is bound to
KeyDownOutcomes ==
    {<<>>, <<Command("LapceNewCommand", Some("bound"), "Auto")>>}

\* Event::KeyDown
KeyDown ==
    /\ Event("KeyDown", None)
    /\ \E out \in KeyDownOutcomes :
           ctx' = IF Len(children) = 0
                  THEN [NoCtx EXCEPT !.handled = TRUE, !.submitted = out]
                  ELSE NoCtx

\* the editor split a builder gave, with the container in focus
InitPointer ==
    /\ Init
    /\ role = "editor"
    /\ direction = "Vertical"
    /\ focus = [id |-> SplitId, area |-> "Editor"]

\* a layout pass in a wide or a narrow box; a click reads the rectangles and
\* the commands of the cache, which the key bindings do not change
PointerLayoutPass ==
    \E my_size \in {Size(F(300), F(200)), Size(F(41), F(31))}, modal \in BOOLEAN,
       line_height \in LineHeights, text_size \in TextSizes :
        Layout(my_size, [i \in 1..Len(children) |-> "max"], modal, FALSE,
               line_height, <<>>, "linux", text_size)

\* the mouse and the keyboard over a container that is emptied, laid out
\* and filled again
NextPointer ==
    \/ \E w \in Targets : SplitEditorClose(w)
    \/ SplitAddEditor(OtherEditor)
    \/ PointerLayoutPass
    \/ \E pos \in MousePositions : MouseMove(pos)
    \/ \E pos \in MousePositions : MouseDown(pos)
    \/ KeyDown

SpecPointer == InitPointer /\ [][NextPointer]_vars

\* the terminals a terminal panel is taken to
MaxTerminals == 2

\* the terminal container as the panel builds it: no child, no terminal
InitTerminal ==
    /\ Constructed({<<>>})
    /\ role = "terminal"

\* InitTerminalPanel delivered to it
TerminalInit(focus_it) ==
    /\ DOMAIN terminals = {} => fresh < MaxTerminals
    /\ Handling("InitTerminalPanel", SplitId, Some(focus_it))
    /\ init_terminal_panel(focus_it)

\* SplitTerminal delivered to it
TerminalOpen(vertical, widget_id) ==
    /\ fresh < MaxTerminals
    /\ Handling("SplitTerminal", widget_id, Some(vertical))
    /\ split_terminal(vertical, widget_id)

\* SplitTerminalClose delivered to it
TerminalClose(term_id, widget_id) ==
    /\ Handling("SplitTerminalClose", widget_id, Some(term_id))
    /\ split_terminal_close(term_id, widget_id)

\* the terminal panel under its three commands
NextTerminal ==
    \/ \E f \in BOOLEAN : TerminalInit(f)
    \/ \E w \in Targets, v \in BOOLEAN : TerminalOpen(v, w)
    \/ \E w \in Targets : TerminalClose(TermIdOf(w), w)

SpecTerminal == InitTerminal /\ [][NextTerminal]_vars

----------------------------------------------------------------------------
(* What the claims speak of. *)

\* the commands that name a target pane
StructuralOps ==
    {"SplitEditor", "SplitEditorClose", "SplitEditorExchange",
     "SplitEditorMove", "SplitTerminal", "SplitTerminalClose"}

CloseOps == {"SplitEditorClose", "SplitTerminalClose"}

\* the commands that insert or remove a child
MembershipOps ==
    {"SplitEditor", "SplitAddEditor", "SplitTerminal", "InitTerminalPanel",
     "SplitEditorClose", "SplitTerminalClose"}

\* the linear scan over ids locates widget_id at index i
LocatedAt(ids, widget_id, i) ==
    /\ i \in 0..(Len(ids) - 1)
    /\ ids[i + 1] = widget_id
    /\ \A j \in 1..i : ids[j] # widget_id

\* s with the element of index i left out
Without(s, i) ==
    [k \in 1..(Len(s) - 1) |-> IF k <= i THEN s[k] ELSE s[k + 1]]

\* s with the elements of index i and i + 1 in each other's place
Swapped(s, i) ==
    [k \in 1..Len(s) |-> IF k = i + 1 THEN s[i + 2]
                         ELSE IF k = i + 2 THEN s[i + 1] ELSE s[k]]

\* the panes of a child list: which widget, fixed or flexible
Panes(ch) == [k \in 1..Len(ch) |-> [wid |-> ch[k].wid, flex |-> ch[k].flex]]

FocusOn(id) == [cmd |-> "Focus", arg |-> <<>>, target |-> id]

----------------------------------------------------------------------------
(* C1: whenever the children of the editor split are editors the registry *)
(* tracks, the child identity sequence equals the registry's ordering      *)
(* list, element for element.                                              *)
C1_OrderInvariant ==
    (role = "editor" /\ Range(children_ids) \subseteq DOMAIN editors)
        => children_ids = editors_order

(* C2: a structural command whose target is not among the child            *)
(* identities returns with children, weights, both registries and the      *)
(* ordering list unchanged, and emits nothing.                             *)
C2_StaleTargetNoOp ==
    [][(last'.op \in StructuralOps /\ last'.target \notin Range(children_ids))
         => /\ UNCHANGED <<children, children_ids, editors, editors_order,
                           terminals>>
            /\ ctx' = NoCtx]_vars

(* C3: every command completes in every reachable state: no handler        *)
(* panics.                                                                 *)
C3_Totality ==
    fault = "none"

(* C4: no identity occurs twice in the child identity list.                *)
C4_UniqueIdentities ==
    \A i, j \in 1..Len(children_ids) :
        children_ids[i] = children_ids[j] => i = j

(* C5: after a command that inserted or removed a child, every flexible    *)
(* child has weight 1.                                                     *)
C5_WeightsEvened ==
    (last.op \in MembershipOps /\ ctx.children_changed = 1)
        => \A k \in 1..Len(children) :
               children[k].flex => children[k].params = 1

(* C6: Close of the child the scan locates at index i, in a container of   *)
(* n >= 2 children, removes exactly that child, keeps the others in order  *)
(* and submits one Focus, to the pane that was at i + 1, or at i - 1 when  *)
(* i = n - 1.                                                              *)
C6_CloseWithSiblings ==
    [][\A i \in 0..(Len(children_ids) - 1) :
          (/\ last'.op \in CloseOps
           /\ Len(children) >= 2
           /\ LocatedAt(children_ids, last'.target, i))
          => /\ children_ids' = Without(children_ids, i)
             /\ Panes(children') = Without(Panes(children), i)
             /\ ctx'.submitted =
                   <<FocusOn(IF i = Len(children) - 1
                             THEN children_ids[i] ELSE children_ids[i + 2])>>
      ]_vars

\* a Close found its target among two or more children and handed the
\* focus to a sibling that stays
C6_Witness ==
    /\ last.op \in CloseOps /\ last.found
    /\ ctx.children_changed = 1
    /\ Len(ctx.submitted) = 1
    /\ ctx.submitted[1].cmd = "Focus"
    /\ ctx.submitted[1].target \in Range(children_ids)
    /\ last.target \notin Range(children_ids)

(* C7: Close of the only child empties the container and submits a Focus:  *)
(* to the container itself for an editor close, with the                   *)
(* registry's active pointer cleared, to the registry's active pane for a  *)
(* terminal close.                                                         *)
C7_CloseOnlyChildFocuses ==
    [][(/\ last'.op \in CloseOps
        /\ Len(children) = 1
        /\ children_ids[1] = last'.target)
       => /\ children' = <<>> /\ children_ids' = <<>>
          /\ IF last'.op = "SplitEditorClose"
             THEN /\ ctx'.submitted = <<FocusOn(SplitId)>>
                  /\ active' = None
             ELSE \E a \in AllIds :
                     /\ active = Some(a)
                     /\ ctx'.submitted = <<FocusOn(a)>>
      ]_vars

\* the commands of the affordance list, by name
AffordanceNames(modal, has_workspace) ==
    LET toggle == IF modal THEN "DisableModal" ELSE "EnableModal"
    IN  IF has_workspace THEN <<"PaletteCommand", toggle, "Palette">>
        ELSE <<"PaletteCommand", toggle, "OpenFolder", "PaletteWorkspace">>

\* the only child was closed by the command handled last
ClosedToEmpty ==
    /\ last.op \in CloseOps /\ last.found
    /\ ctx.children_changed = 1
    /\ children = <<>>

(* C8: the layout pass that follows the Close of the only child does not   *)
(* fail, measures no child, caches the affordance list of the workspace    *)
(* and modal settings it reads, and returns bc.max().                      *)
C8_CloseToEmptyThenLayout ==
    [][(ClosedToEmpty /\ laid = None /\ last' = last)
       => /\ fault' = "none"
          /\ laid' # None
          /\ laid'[1].calls = <<>>
          /\ laid'[1].size = laid'[1].bc_max
          /\ children' = <<>>
          /\ [n \in DOMAIN commands' |-> commands'[n].cmd.cmd]
                = AffordanceNames(laid'[1].read[1], laid'[1].read[2])
      ]_vars

\* a container built with a child was emptied by a Close and then laid out
\* with a workspace open
C8_Witness ==
    /\ ClosedToEmpty
    /\ built # <<>>
    /\ laid # None
    /\ laid[1].read[2]
    /\ laid[1].size = laid[1].bc_max
    /\ Len(commands) = 3

C10_ExchangePrecondition ==
    [][(/\ last'.op = "SplitEditorExchange"
        /\ \/ Len(children) < 2
           \/ LocatedAt(children_ids, last'.target, Len(children) - 1))
       => /\ UNCHANGED <<children, children_ids, editors_order>>
          /\ ctx' = NoCtx
      ]_vars

\* an Exchange named the last of two or more children and returned
C10_Witness ==
    /\ last.op = "SplitEditorExchange" /\ last.found
    /\ Len(children_ids) >= 2
    /\ children_ids[Len(children_ids)] = last.target
    /\ \A k \in 1..(Len(children_ids) - 1) : children_ids[k] # last.target
    /\ ctx = NoCtx

\* a Move toward the previous side (-1), the next side (1), or across the
\* container's axis (0)
MoveStep(dir) ==
    IF direction = "Vertical"
    THEN (IF dir = "Left" THEN -1 ELSE IF dir = "Right" THEN 1 ELSE 0)
    ELSE (IF dir = "Up" THEN -1 ELSE IF dir = "Down" THEN 1 ELSE 0)

\* Focus and then EnsureCursorVisible, both addressed to id
FocusAndShow(id) ==
    <<FocusOn(id),
      [cmd |-> "EnsureCursorVisible", arg |-> <<>>, target |-> id]>>

(* C11: a Move changes neither the children nor their sizing nor the       *)
(* registries; for a target the scan locates at index i, when the index    *)
(* next to i on the side moved to exists, the Move submits exactly a Focus *)
(* followed by an EnsureCursorVisible, both addressed to the child at that *)
(* index, and otherwise it submits nothing.                                *)
C11_MoveFocusOnly ==
    [][last'.op = "SplitEditorMove"
       => /\ UNCHANGED <<children, children_ids, editors, editors_order,
                         terminals>>
          /\ ctx'.children_changed = 0 /\ ctx'.request_layout = 0
          /\ \A i \in 0..(Len(children_ids) - 1) :
                LocatedAt(children_ids, last'.target, i)
                => LET j == i + MoveStep(last'.arg[1])
                   IN  ctx'.submitted =
                          IF j # i /\ j \in 0..(Len(children_ids) - 1)
                          THEN FocusAndShow(children_ids[j + 1])
                          ELSE <<>>
      ]_vars

\* a Move from a child to its neighbour on the previous side
C11_Witness ==
    /\ last.op = "SplitEditorMove" /\ last.found
    /\ MoveStep(last.arg[1]) = -1
    /\ Len(children_ids) >= 2
    /\ children_ids[2] = last.target
    /\ children_ids[1] # last.target
    /\ ctx.submitted = FocusAndShow(children_ids[1])

(* C12: a Move toward the previous side from the first child, or toward    *)
(* the next side from the last child, submits nothing and changes neither  *)
(* the children nor the focus.                                             *)
C12_MoveAtBoundary ==
    [][(/\ last'.op = "SplitEditorMove"
        /\ \/ /\ last'.arg[1] \in {"Left", "Up"}
              /\ LocatedAt(children_ids, last'.target, 0)
           \/ /\ last'.arg[1] \in {"Right", "Down"}
              /\ LocatedAt(children_ids, last'.target, Len(children_ids) - 1))
       => /\ ctx' = NoCtx
          /\ fault' = "none"
          /\ UNCHANGED <<children, children_ids, focus>>
      ]_vars

\* a Move toward the next side named the last of two children and returned
C12_Witness ==
    /\ last.op = "SplitEditorMove" /\ last.found
    /\ MoveStep(last.arg[1]) = 1
    /\ Len(children_ids) = 2
    /\ children_ids[2] = last.target
    /\ children_ids[1] # last.target
    /\ ctx = NoCtx
    /\ fault = "none"

(* C13: a Move across the container's axis (Up or Down in a Vertical       *)
(* container, Left or Right in a Horizontal one) submits nothing and       *)
(* changes nothing, whatever the target and the number of children.        *)
C13_OrthogonalMove ==
    [][(last'.op = "SplitEditorMove" /\ MoveStep(last'.arg[1]) = 0)
       => /\ ctx' = NoCtx
          /\ fault' = "none"
          /\ UNCHANGED <<children, children_ids, direction, commands, editors,
                         editors_order, active, terminals, terminal_active,
                         panel_shown, focus, fresh>>
      ]_vars

\* a Move across the axis of a container with two children returned
C13_Witness ==
    /\ last.op = "SplitEditorMove"
    /\ MoveStep(last.arg[1]) = 0
    /\ Len(children_ids) = 2
    /\ ctx = NoCtx
    /\ fault = "none"

\* every flexible child of ch has weight 1
AllEven(ch) == \A k \in 1..Len(ch) : ch[k].flex => ch[k].params = 1

\* after is before with one element more, at index i
InsertedAt(after, before, i) ==
    /\ Len(after) = Len(before) + 1
    /\ i \in 0..Len(before)
    /\ Without(after, i) = before

\* what Split of the child at index i is to do: one new pane at i + 1, the
\* others in order; the new pane flexible with weight 1 and an identity no
\* child and no registered editor had; the registry holds it with the
\* target's content, cursor and locations; every flexible weight 1; the
\* registry order is the child order; ChildrenChanged is emitted
SplitEffect(i) ==
    /\ fault' = "none"
    /\ InsertedAt(children_ids', children_ids, i + 1)
    /\ InsertedAt(Panes(children'), Panes(children), i + 1)
    /\ LET new == children_ids'[i + 2]
       IN  /\ children'[i + 2].wid = new
           /\ children'[i + 2].flex
           /\ children'[i + 2].params = 1
           /\ new \notin Range(children_ids)
           /\ new \notin DOMAIN editors
           /\ DOMAIN editors' = DOMAIN editors \cup {new}
           /\ \A e \in DOMAIN editors : editors'[e] = editors[e]
           /\ last'.target \in DOMAIN editors
           /\ editors'[new].content = editors[last'.target].content
           /\ editors'[new].cursor = editors[last'.target].cursor
           /\ editors'[new].locations = editors[last'.target].locations
    /\ AllEven(children')
    /\ editors_order' = children_ids'
    /\ ctx'.children_changed = 1

(* C14: Split of a target the scan locates at index i adds one pane at     *)
(* index i + 1 and keeps the others in order; the new pane is flexible     *)
(* with weight 1 and has a fresh identity; the registry gets it with the   *)
(* target's content, cursor and locations; afterwards every flexible       *)
(* weight is 1, the registry order is the child order, and ChildrenChanged *)
(* is emitted.                                                             *)
C14_Split ==
    [][\A i \in 0..(Len(children_ids) - 1) :
          (/\ last'.op = "SplitEditor"
           /\ LocatedAt(children_ids, last'.target, i))
          => SplitEffect(i)
      ]_vars

\* the same for a target that the editor registry holds
SplitOfRegistered ==
    [][\A i \in 0..(Len(children_ids) - 1) :
          (/\ last'.op = "SplitEditor"
           /\ LocatedAt(children_ids, last'.target, i)
           /\ last'.target \in DOMAIN editors)
          => SplitEffect(i)
      ]_vars

(* C15: split_terminal of a target the scan locates at index i adds one    *)
(* terminal pane at index i + 1, registers it in the terminal registry     *)
(* under its terminal id, keeps the other children in order, leaves every  *)
(* flexible weight 1 and emits ChildrenChanged.                            *)
C15_OpenTerminalPane ==
    [][\A i \in 0..(Len(children_ids) - 1) :
          (/\ last'.op = "SplitTerminal"
           /\ LocatedAt(children_ids, last'.target, i))
          => /\ fault' = "none"
             /\ InsertedAt(children_ids', children_ids, i + 1)
             /\ InsertedAt(Panes(children'), Panes(children), i + 1)
             /\ children'[i + 2].flex
             /\ \E t \in (DOMAIN terminals') \ DOMAIN terminals :
                   /\ DOMAIN terminals' = DOMAIN terminals \cup {t}
                   /\ terminals'[t].term_id = t
                   /\ terminals'[t].widget_id = children_ids'[i + 2]
                   /\ \A u \in DOMAIN terminals : terminals'[u] = terminals[u]
             /\ AllEven(children')
             /\ ctx'.children_changed = 1
      ]_vars

\* a split_terminal of the first child put a registered terminal second,
\* beside a child that was built with another weight
C15_Witness ==
    /\ last.op = "SplitTerminal" /\ last.found
    /\ fault = "none"
    /\ ctx.children_changed = 1
    /\ Len(children_ids) >= 2
    /\ children_ids[1] = last.target
    /\ children_ids[2] \in {terminals[t].widget_id : t \in DOMAIN terminals}
    /\ AllEven(children)

----------------------------------------------------------------------------
(* The layout pass over children. *)

\* a layout pass over at least one child has returned and no command has
\* been handled since
Measured == laid # None /\ Len(children) > 0

\* the available extent A and the available cross extent of that pass
Avail == main_axis(laid[1].bc_max)
Cross == other_axis(laid[1].bc_max)

\* the measurements of that pass, and the child each was made of
Calls == laid[1].calls
ChildOf(c) == children[c.index + 1]
FlexCalls == {n \in 1..Len(Calls) : ChildOf(Calls[n]).flex}
FixedCalls == {n \in 1..Len(Calls) : ~ChildOf(Calls[n]).flex}

\* the measurement of the k-th child
CallOf(k) == Calls[CHOOSE n \in 1..Len(Calls) : Calls[n].index = k - 1]

\* the sum of the extents the measurements cs reported, of the flex children
\* or of the others
RECURSIVE ReportedTotal(_, _)
ReportedTotal(cs, flexible) ==
    IF cs = <<>> THEN F(0)
    ELSE LET c == cs[Len(cs)]
             rest == ReportedTotal(SubSeq(cs, 1, Len(cs) - 1), flexible)
         IN  IF ChildOf(c).flex = flexible
             THEN f64_add(rest, main_axis(c.size)) ELSE rest

FixedTotal == ReportedTotal(Calls, FALSE)
WeightSum == flex_sum_of(children)

\* every flexible child has a positive weight
PositiveWeights ==
    \A k \in 1..Len(children) : children[k].flex => children[k].params > 0

(* C16: when the fixed children's measured extents sum to more than the    *)
(* available extent A, every flexible child (of positive weight) is        *)
(* offered an extent of 0.                                                 *)
C16_OverConstrained ==
    (Measured /\ PositiveWeights /\ f64_gt(FixedTotal, Avail))
    => \A n \in FlexCalls : main_axis(Calls[n].max) = F(0)

(* C17: when the flexible weights sum to 0, or the available extent is 0,  *)
(* the pass completes and every flexible child is offered an extent of 0.  *)
C17_DegenerateGeometry ==
    (Measured /\ (WeightSum = F(0) \/ Avail = F(0)))
    => \A n \in FlexCalls : main_axis(Calls[n].max) = F(0)

(* C18: every child is measured once; a fixed child with a box of (its     *)
(* requested extent, the full cross extent); with a positive weight sum    *)
(* and A at least the fixed total, a flexible child with a box of          *)
(* (flex_total * (its weight / weight sum), the full cross extent), where  *)
(* flex_total is A minus the sum of the extents the fixed children         *)
(* reported.                                                               *)
C18_FlexShare ==
    Measured
    => /\ Len(Calls) = Len(children)
       /\ {Calls[n].index : n \in 1..Len(Calls)} = 0..(Len(children) - 1)
       /\ \A n \in FixedCalls :
             /\ main_axis(Calls[n].max) = F(ChildOf(Calls[n]).params)
             /\ other_axis(Calls[n].max) = Cross
       /\ (f64_gt(WeightSum, F(0)) /\ ~f64_gt(FixedTotal, Avail))
          => \A n \in FlexCalls :
                /\ main_axis(Calls[n].max)
                     = f64_mul(f64_sub(Avail, FixedTotal),
                               f64_div(F(ChildOf(Calls[n]).params), WeightSum))
                /\ other_axis(Calls[n].max) = Cross

\* a fixed child reported another extent than it was asked for, the space
\* sufficed, and a flexible child was offered the rest
C18_Witness ==
    /\ Measured
    /\ f64_gt(WeightSum, F(0)) /\ ~f64_gt(FixedTotal, Avail)
    /\ \E n \in FixedCalls : main_axis(Calls[n].size) # main_axis(Calls[n].max)
    /\ \E n \in FlexCalls :
          /\ main_axis(Calls[n].max) = f64_sub(Avail, FixedTotal)
          /\ f64_gt(main_axis(Calls[n].max), F(0))

(* C19: N flexible children of equal positive weight and no fixed child:   *)
(* each is offered floor(A / N), the last one the remainder besides.       *)
C19_FlexConservation ==
    (/\ Measured
     /\ FixedCalls = {}
     /\ PositiveWeights
     /\ \A k \in 1..Len(children) : children[k].params = children[1].params)
    => LET N == Len(children)
           A == Avail[1]
       IN  \A n \in FlexCalls :
              main_axis(Calls[n].max)
                  = F((A \div N)
                      + IF Calls[n].index = N - 1 THEN A % N ELSE 0)

\* what the pass does offer N flexible children of equal positive weight
\* when no child is fixed: A / N each
EvenShares ==
    (/\ Measured
     /\ FixedCalls = {}
     /\ PositiveWeights
     /\ \A k \in 1..Len(children) : children[k].params = children[1].params)
    => \A n \in FlexCalls :
          main_axis(Calls[n].max) = f64_div(Avail, F(Len(children)))

\* the origin of a rectangle along the container's axis and across it
origin_main(r) == IF direction = "Vertical" THEN r.x0 ELSE r.y0
origin_cross(r) == IF direction = "Vertical" THEN r.y0 ELSE r.x0

\* the greatest cross extent the measurements cs reported
RECURSIVE ReportedCross(_)
ReportedCross(cs) ==
    IF cs = <<>> THEN F(0)
    ELSE LET rest == ReportedCross(SubSeq(cs, 1, Len(cs) - 1))
             c == other_axis(cs[Len(cs)].size)
         IN  IF f64_gt(c, rest) THEN c ELSE rest

\* the children lie one after the other by their measured extents, and the
\* container reports the sum of these and the greatest cross extent
Placed ==
    /\ origin_main(children[1].layout_rect) = F(0)
    /\ \A k \in 2..Len(children) :
          origin_main(children[k].layout_rect)
              = f64_add(origin_main(children[k - 1].layout_rect),
                        main_axis(CallOf(k - 1).size))
    /\ \A k \in 1..Len(children) :
          origin_cross(children[k].layout_rect) = F(0)
    /\ main_axis(laid[1].size)
          = f64_add(ReportedTotal(Calls, TRUE), ReportedTotal(Calls, FALSE))
    /\ other_axis(laid[1].size) = ReportedCross(Calls)

(* C20: the first child's origin is 0, every later child's origin is the   *)
(* previous child's origin plus the extent the previous child measured,    *)
(* every cross origin is 0, and the container reports (the sum of the      *)
(* measured extents, the greatest measured cross extent); stated of the    *)
(* containers whose flexible weights are positive.                         *)
C20_Placement ==
    (Measured /\ PositiveWeights) => Placed

\* the same for the passes in which every child measured a number that is
\* not negative
PlacedWhenNotNegative ==
    (Measured /\ \A n \in 1..Len(Calls) :
                    /\ main_axis(Calls[n].size) # NaN
                    /\ ~f64_gt(F(0), main_axis(Calls[n].size)))
    => Placed

----------------------------------------------------------------------------
\* the commands that change or traverse the children
FocusFreeOps == StructuralOps \cup {"SplitAddEditor"}

(* C24: no structural operation (Split, SplitAddEditor, Close, Exchange,   *)
(* Move, OpenTerminalPane, CloseTerminalPane) writes data.focus or         *)
(* data.focus_area or requests the focus for the container; the focus      *)
(* state changes only in the handler of a Focus command delivered to the   *)
(* container, which sets it to the container and the Editor area.          *)
C24_FocusRequested ==
    [][/\ last'.op \in FocusFreeOps
            => (focus' = focus /\ ctx'.request_focus = 0)
       /\ focus' # focus
            => (last'.op = "Focus" /\ last'.target = SplitId)
       /\ last'.op = "Focus"
            => (/\ focus' = [id |-> SplitId, area |-> "Editor"]
                /\ ctx'.request_focus = 1)
      ]_vars

\* a structural operation has emitted a Focus command for a pane while the
\* focus state is on another
C24_Witness ==
    /\ last.op \in FocusFreeOps
    /\ fault = "none"
    /\ \E n \in 1..Len(ctx.submitted) :
          /\ ctx.submitted[n].cmd = "Focus"
          /\ ctx.submitted[n].target # focus.id
    /\ focus.id # SplitId

----------------------------------------------------------------------------
\* what Split of the child at index i is to emit: one ForceScrollTo, for
\* the new pane, with the scroll offset of the target, and nothing else
ScrollRestored(i) ==
    /\ fault' = "none"
    /\ last'.target \in DOMAIN editors
    /\ ctx'.submitted
         = <<[cmd |-> "ForceScrollTo",
              arg |-> editors[last'.target].scroll_offset,
              target |-> children_ids'[i + 2]]>>
    /\ \A n \in 1..Len(ctx'.submitted) : ctx'.submitted[n].cmd # "Focus"
    /\ ctx'.request_focus = 0

(* C27: Split of a target the scan locates at index i emits one            *)
(* ForceScrollTo command, addressed to the new pane and carrying the       *)
(* target's scroll offset (x, y), and emits no Focus command.              *)
C27_SplitRestoresScroll ==
    [][\A i \in 0..(Len(children_ids) - 1) :
          (/\ last'.op = "SplitEditor"
           /\ LocatedAt(children_ids, last'.target, i))
          => ScrollRestored(i)
      ]_vars

\* the same for a target that the editor registry holds
ScrollRestoredOfRegistered ==
    [][\A i \in 0..(Len(children_ids) - 1) :
          (/\ last'.op = "SplitEditor"
           /\ LocatedAt(children_ids, last'.target, i)
           /\ last'.target \in DOMAIN editors)
          => ScrollRestored(i)
      ]_vars

----------------------------------------------------------------------------
\* everything a handler can write is as it was
NothingWritten ==
    UNCHANGED <<children, children_ids, commands, editors, editors_order,
                active, terminals, terminal_active, panel_shown, focus, fresh,
                fault>>

(* C28: InitTerminalPanel when the terminal registry is empty inserts one  *)
(* flexible terminal pane of weight 1 at index 0, registers it, makes it   *)
(* the registry's active widget and active terminal, emits ChildrenChanged *)
(* and emits Focus to the new pane exactly when auto_focus is true; when   *)
(* the registry holds a terminal it writes nothing and emits nothing.      *)
C28_InitTerminalPanel ==
    [][last'.op = "InitTerminalPanel"
          => IF DOMAIN terminals = {}
             THEN /\ fault' = "none"
                  /\ InsertedAt(children_ids', children_ids, 0)
                  /\ InsertedAt(children', children, 0)
                  /\ children'[1].flex /\ children'[1].params = 1
                  /\ children'[1].wid = children_ids'[1]
                  /\ \E t \in DOMAIN terminals' :
                        /\ DOMAIN terminals' = {t}
                        /\ terminals'[t].term_id = t
                        /\ terminals'[t].widget_id = children_ids'[1]
                        /\ terminal_active'
                             = [active |-> Some(children_ids'[1]),
                                active_term_id |-> Some(t)]
                  /\ ctx'.children_changed = 1
                  /\ ctx'.submitted = IF last'.arg[1]
                                      THEN <<FocusOn(children_ids'[1])>>
                                      ELSE <<>>
                  /\ UNCHANGED <<editors, editors_order, active, focus>>
             ELSE /\ NothingWritten
                  /\ ctx' = NoCtx
      ]_vars

\* InitTerminalPanel was delivered again, with auto_focus, after a delivery
\* had created the terminal: nothing was emitted
C28_Witness ==
    /\ last.op = "InitTerminalPanel"
    /\ last.arg = Some(TRUE)
    /\ ctx = NoCtx
    /\ DOMAIN terminals # {}
    /\ Len(children_ids) >= 1
    /\ terminal_active.active = Some(children_ids[1])

----------------------------------------------------------------------------
(* C29: SplitAddEditor(w) for an editor w of the registry inserts w as a   *)
(* flexible child at index 0, leaves every flexible weight 1, emits        *)
(* ChildrenChanged, sets the registry order to the new child order and     *)
(* emits a Focus command addressed to w.                                   *)
C29_SplitAddEditor ==
    [][(last'.op = "SplitAddEditor" /\ last'.target \in DOMAIN editors)
          => /\ fault' = "none"
             /\ InsertedAt(children_ids', children_ids, 0)
             /\ InsertedAt(Panes(children'), Panes(children), 0)
             /\ children_ids'[1] = last'.target
             /\ children'[1].wid = WidgetIdOf(editors[last'.target].view_id)
             /\ children'[1].flex
             /\ AllEven(children')
             /\ ctx'.children_changed = 1
             /\ editors_order' = children_ids'
             /\ ctx'.submitted = <<FocusOn(last'.target)>>
             /\ editors' = editors
      ]_vars

\* SplitAddEditor has put a registered editor before a child that was there
C29_Witness ==
    /\ last.op = "SplitAddEditor"
    /\ fault = "none"
    /\ Len(children_ids) >= 2
    /\ children_ids[1] = last.target
    /\ children_ids[2] # last.target
    /\ last.target \in DOMAIN editors
    /\ editors_order = children_ids
    /\ ctx.submitted = <<FocusOn(last.target)>>

----------------------------------------------------------------------------
(* C30: a command that changes the number of children (Split,              *)
(* SplitAddEditor, OpenTerminalPane, InitTerminalPanel, Close,             *)
(* CloseTerminalPane) emits ChildrenChanged once, and no command that      *)
(* leaves the number emits it; Exchange either swaps two neighbours and    *)
(* emits a layout invalidation, or writes and emits nothing; Move emits    *)
(* neither; a command that returns early (Close of an empty container,     *)
(* InitTerminalPanel with a terminal registered, Exchange of an only child *)
(* or of the last child) emits nothing.                                    *)
C30_NotificationDiscipline ==
    [][/\ Len(children') # Len(children)
            => (last'.op \in MembershipOps /\ ctx'.children_changed = 1)
       /\ Len(children') = Len(children) => ctx'.children_changed = 0
       /\ last'.op = "SplitEditorExchange"
            => IF ctx'.request_layout = 1
               THEN \E i \in 0..(Len(children) - 2) :
                       /\ children_ids' = Swapped(children_ids, i)
                       /\ children' = Swapped(children, i)
               ELSE NothingWritten /\ ctx' = NoCtx
       /\ last'.op = "SplitEditorMove"
            => (ctx'.children_changed = 0 /\ ctx'.request_layout = 0)
       /\ (last'.op \in CloseOps /\ Len(children) = 0) => ctx' = NoCtx
       /\ (last'.op = "InitTerminalPanel" /\ DOMAIN terminals # {})
            => ctx' = NoCtx
       /\ (/\ last'.op = "SplitEditorExchange"
           /\ \/ Len(children) <= 1
              \/ LocatedAt(children_ids, last'.target, Len(children) - 1))
            => ctx' = NoCtx
       /\ ctx'.request_layout = 1 => last'.op = "SplitEditorExchange"
      ]_vars

\* InitTerminalPanel has created a pane and emitted ChildrenChanged alone
C30_Witness ==
    /\ last.op = "InitTerminalPanel"
    /\ last.arg = Some(FALSE)
    /\ ctx.children_changed = 1
    /\ ctx.request_layout = 0
    /\ ctx.submitted = <<>>
    /\ Len(children) >= 1

----------------------------------------------------------------------------
(* The empty state. *)

\* a layout pass over the empty container has returned and no command has
\* been handled since
LaidEmpty == laid # None /\ Len(children) = 0

\* the command and the description of each cached affordance, the
\* description of the modal toggle left open
Affordances ==
    [n \in DOMAIN commands |->
        IF commands[n].cmd.cmd \in {"DisableModal", "EnableModal"}
        THEN <<commands[n].cmd.cmd>>
        ELSE <<commands[n].cmd.cmd, commands[n].cmd.palette_desc>>]

\* the list the claim gives for the two settings
AffordanceList(modal, has_workspace) ==
    LET toggle == IF modal THEN <<"DisableModal">> ELSE <<"EnableModal">>
    IN  IF has_workspace
        THEN <<<<"PaletteCommand", Some("Show All Commands")>>, toggle,
               <<"Palette", Some("Go To File")>>>>
        ELSE <<<<"PaletteCommand", Some("Show All Commands")>>, toggle,
               <<"OpenFolder", Some("Open Folder")>>,
               <<"PaletteWorkspace", Some("Open Recent")>>>>

(* C25: the affordance list a layout pass over the empty container caches  *)
(* is determined by (modal editing, workspace open), whatever size, key    *)
(* maps, system and text engine the pass met: without a workspace [Show    *)
(* All Commands, modal toggle, Open Folder, Open Recent], with one [Show   *)
(* All Commands, modal toggle, Go To File]; the toggle is DisableModal     *)
(* when modal editing is on and EnableModal otherwise; every entry is for  *)
(* the workbench and carries no data.                                      *)
C25_AffordanceList ==
    LaidEmpty
    => /\ Affordances = AffordanceList(laid[1].read[1], laid[1].read[2])
       /\ \A n \in DOMAIN commands :
             /\ commands[n].cmd.target = "Workbench"
             /\ commands[n].cmd.data = None

\* the empty container was laid out with modal editing on and no workspace
C25_Witness ==
    /\ LaidEmpty
    /\ laid[1].read = <<TRUE, FALSE>>
    /\ Len(commands) = 4
    /\ commands[2].cmd.cmd = "DisableModal"
    /\ commands[4].cmd.palette_desc = Some("Open Recent")

----------------------------------------------------------------------------
\* the children without their cached rectangles
Uncached(ch) ==
    [k \in 1..Len(ch) |->
        [wid |-> ch[k].wid, flex |-> ch[k].flex, params |-> ch[k].params]]

(* C23: a layout pass leaves the child list (membership, order,            *)
(* identities), every child's sizing mode and weight, the registries and   *)
(* the rest of the application data as they are, and asks nothing of the   *)
(* event context; with children it writes their layout_rect only, in the   *)
(* empty state the cached affordance list only.                            *)
C23_LayoutFrame ==
    [][laid' # None
          => /\ children_ids' = children_ids
             /\ Uncached(children') = Uncached(children)
             /\ UNCHANGED <<direction, editors, editors_order, active,
                            terminals, terminal_active, panel_shown, focus,
                            ctx>>
             /\ Len(children) > 0 => commands' = commands
             /\ Len(children) = 0 => children' = children
      ]_vars

\* a pass has written the rectangles of two children, one fixed, one
\* flexible with a weight other than 1
C23_Witness ==
    /\ Measured
    /\ Len(children) = 2
    /\ \E k \in 1..2 : ~children[k].flex
    /\ \E k \in 1..2 : children[k].flex /\ children[k].params = 2
    /\ \A k \in 1..2 : children[k].layout_rect # RectZero

----------------------------------------------------------------------------
\* the children answered the measurements cs as answers says
AnsweredBy(cs, answers) ==
    \A n \in 1..Len(cs) :
        cs[n].size = child_layout(answers[cs[n].index + 1], cs[n].max)

(* C21: a layout pass that follows a layout pass over the same children,   *)
(* with the same constraints and with children that answer as they did,    *)
(* leaves every child's layout_rect as the first pass left it and returns  *)
(* the same size.                                                          *)
C21_SizingIdempotence ==
    [][(/\ laid # None /\ laid' # None
        /\ Len(children) > 0
        /\ laid'[1].bc_max = laid[1].bc_max
        /\ \E answers \in [1..Len(children) -> ChildAnswers] :
              /\ AnsweredBy(laid[1].calls, answers)
              /\ AnsweredBy(laid'[1].calls, answers))
       => /\ children' = children
          /\ laid'[1].size = laid[1].size
          /\ laid'[1].calls = laid[1].calls
      ]_vars

\* a pass has laid out a fixed and a flexible child, one of which answered
\* with a size of its own, and the next pass finds the rectangles cached
C21_Witness ==
    /\ Measured
    /\ Len(children) = 2
    /\ ~children[1].flex /\ children[2].flex
    /\ \E n \in 1..Len(Calls) : Calls[n].size # Calls[n].max
    /\ origin_main(children[2].layout_rect) # F(0)

----------------------------------------------------------------------------
\* the width every child was measured with, in child order
OfferedWidths == [k \in 1..Len(children) |-> CallOf(k).max.width]

(* C22: a Vertical container with 3 flexible children of weight 1, laid    *)
(* out with an available width of 300, offers each child a width of 100;   *)
(* after Split of the second child there are 4 children, the new one       *)
(* third, all flexible with weight 1, and the next layout with width 300   *)
(* offers the widths [75, 75, 75, 75].                                     *)
C22_SplitThenLayout ==
    (/\ Measured
     /\ direction = "Vertical"
     /\ laid[1].bc_max.width = F(300))
    => /\ last.op = "new"
            => (/\ Len(children) = 3
                /\ OfferedWidths = <<F(100), F(100), F(100)>>)
       /\ (last.op = "SplitEditor" /\ last.target = BuilderId(2))
            => (/\ children_ids = <<BuilderId(1), BuilderId(2), FreshId(1),
                                    BuilderId(3)>>
                /\ \A k \in 1..4 : children[k].flex /\ children[k].params = 1
                /\ OfferedWidths = <<F(75), F(75), F(75), F(75)>>)

\* the container was split at its second child and laid out in width 300,
\* every child took what it was offered, and the fourth lies at 225
C22_Witness ==
    /\ Measured
    /\ direction = "Vertical"
    /\ laid[1].bc_max.width = F(300)
    /\ last.op = "SplitEditor" /\ last.target = BuilderId(2)
    /\ Len(children) = 4
    /\ \A n \in 1..Len(Calls) : Calls[n].size.width = F(75)
    /\ children[4].layout_rect.x0 = F(225)
    /\ laid[1].size.width = F(300)

----------------------------------------------------------------------------
\* the events the container takes for its affordances
PointerOps == {"MouseMove", "MouseDown", "KeyDown"}

\* the step is one of those events: a layout pass leaves both the record of
\* the last event and the context as they are
PointerStep == last'.op \in PointerOps /\ (last' # last \/ ctx' # ctx)

\* the cached affordances whose rectangle has the point inside
Hit(pos) ==
    {n \in 1..Len(commands) :
        /\ ~f64_gt(commands[n].rect.x0, pos.x) /\ f64_gt(commands[n].rect.x1, pos.x)
        /\ ~f64_gt(commands[n].rect.y0, pos.y) /\ f64_gt(commands[n].rect.y1, pos.y)}

(* C26: a mouse click dispatches an affordance command only when the       *)
(* container has no children and the click lies inside a cached rectangle, *)
(* and then it dispatches exactly one command, that of the first cached    *)
(* rectangle that contains the click; when the container has a child, a    *)
(* click, a mouse move or a key press makes the container emit nothing and *)
(* write nothing, whatever rectangles are still cached.                    *)
C26_AffordancesLiveWhenEmpty ==
    [][PointerStep
          => /\ NothingWritten
             /\ Len(children) > 0 => ctx' = NoCtx
             /\ last'.op = "MouseDown"
                  => IF Len(children) = 0 /\ Hit(last'.arg[1]) # {}
                     THEN \E n \in Hit(last'.arg[1]) :
                             /\ \A m \in Hit(last'.arg[1]) : n <= m
                             /\ ctx' = Submitted(<<Command("LapceNewCommand",
                                                      Some(commands[n].cmd),
                                                      "Auto")>>)
                     ELSE ctx' = NoCtx
      ]_vars

\* a click where the first two cached rectangles overlap dispatched the
\* command of the first
C26_Witness ==
    /\ last.op = "MouseDown"
    /\ Len(children) = 0
    /\ Cardinality(Hit(last.arg[1])) = 2
    /\ ctx.submitted = <<Command("LapceNewCommand", Some(commands[1].cmd), "Auto")>>

\* a click inside a rectangle cached while the container was empty, with a
\* child in the container: nothing was dispatched
C26_StaleClick ==
    /\ last.op = "MouseDown"
    /\ Len(children) > 0
    /\ Hit(last.arg[1]) # {}
    /\ ctx = NoCtx

----------------------------------------------------------------------------
\* the commands that hand the focus on
FocusingOps ==
    {"SplitEditorClose", "SplitTerminalClose", "SplitEditorExchange",
     "SplitEditorMove"}

\* the identities of the panes the step took out of the container
RemovedIds ==
    {children_ids[i + 1] : i \in {j \in 0..(Len(children_ids) - 1) :
                                     children_ids' = Without(children_ids, j)}}

\* the targets of the Focus and EnsureCursorVisible commands the step
\* submitted
FocusTargets ==
    {ctx'.submitted[k].target :
        k \in {j \in 1..Len(ctx'.submitted) :
                  ctx'.submitted[j].cmd \in {"Focus", "EnsureCursorVisible"}}}

\* such a target is the container, the registry's active pane or a child
\* the container holds after the step
Survives(t) ==
    \/ t = SplitId
    \/ active' = Some(t)
    \/ t \in Range(children_ids')

FocusTargetsSurviveOfDistinct ==
    [][(last'.op \in FocusingOps /\ C4_UniqueIdentities)
          => \A t \in FocusTargets : Survives(t) /\ t \notin RemovedIds
      ]_vars

\* every such target survives, in the three ways named
FocusTargetsAreHeld ==
    [][last'.op \in FocusingOps => \A t \in FocusTargets : Survives(t)]_vars

----------------------------------------------------------------------------
\* the two lists are as long as each other, and each identity names the pane
\* at its position
ParallelLists ==
    /\ Len(children) = Len(children_ids)
    /\ \A k \in 1..Len(children_ids) :
          children[k].wid = WidgetIdOf(children_ids[k])

\* the step left both lists alone, or inserted into both, removed from both
\* or swapped in both, at one index
SameIndexStep ==
    LET before == Panes(children)
        after  == Panes(children')
        n      == Len(children_ids)
    IN  IF children_ids' = children_ids
        THEN \/ after = before
             \/ \E i \in 0..(n - 2) :
                   /\ children_ids' = Swapped(children_ids, i)
                   /\ after = Swapped(before, i)
        ELSE IF Len(children_ids') = n + 1
        THEN \E i \in 0..n :
                /\ Without(children_ids', i) = children_ids
                /\ Without(after, i) = before
        ELSE IF Len(children_ids') = n - 1
        THEN \E i \in 0..(n - 1) :
                /\ children_ids' = Without(children_ids, i)
                /\ after = Without(before, i)
        ELSE \E i \in 0..(n - 2) :
                /\ children_ids' = Swapped(children_ids, i)
                /\ after = Swapped(before, i)

(* C32: in every reachable state children and children_ids have the same   *)
(* length and position k of children_ids names the pane at position k of   *)
(* children; every insert, remove and swap is applied to both lists at the *)
(* same index.                                                             *)
C32_ParallelLists ==
    [][/\ ParallelLists
       /\ \/ UNCHANGED <<children, children_ids>>
          \/ ParallelLists' /\ SameIndexStep
      ]_vars

\* a Split put the new pane at index 1 of both lists
C32_Witness ==
    /\ last.op \in {"SplitEditor", "SplitTerminal"}
    /\ fault = "none"
    /\ Len(children_ids) >= 2
    /\ Len(children) >= 2
    /\ children_ids[2] = FreshId(fresh)
    /\ children[2].wid = WidgetIdOf(FreshId(fresh))
    /\ children_ids[1] # children_ids[2]

----------------------------------------------------------------------------
\* the step is the second of two deliveries in a row of one Close, whose
\* pane the first delivery closed
SecondDelivery ==
    /\ last.op \in CloseOps
    /\ last.found
    /\ last.target \notin Range(children_ids)
    /\ last'.op = last.op
    /\ last'.target = last.target

(* C33: delivering Close(p) twice in a row leaves the same children,       *)
(* weights and registry as delivering it once: the second delivery removes *)
(* nothing.                                                                *)
C33_CloseIdempotent ==
    [][SecondDelivery
          => UNCHANGED <<children, children_ids, editors, editors_order,
                         terminals>>
      ]_vars

\* the second delivery to a container the first one emptied changes nothing
SecondDeliveryToEmpty ==
    [][(SecondDelivery /\ Len(children) = 0)
          => /\ UNCHANGED <<children, children_ids, editors, editors_order,
                            terminals>>
             /\ ctx' = NoCtx
      ]_vars

----------------------------------------------------------------------------
\* as many terminals in the registry as children in the container
RegistryMatches == Cardinality(DOMAIN terminals) = Len(children)

(* C34: in every state the terminal container reaches under               *)
(* InitTerminalPanel, OpenTerminalPane and CloseTerminalPane, the terminal *)
(* registry holds as many entries as the container has children, so the   *)
(* registry is empty exactly when the container is.                        *)
C34_TerminalRegistryMatches == fault = "none" => RegistryMatches

\* a step whose target, if it is a Close, is a child keeps the two counts
\* equal
RegistryMatchesOfChildren ==
    [][(/\ RegistryMatches
        /\ fault' = "none"
        /\ last'.op = "SplitTerminalClose" => last'.found)
          => RegistryMatches'
      ]_vars

----------------------------------------------------------------------------
\* how often x occurs in s
Count(s, x) == Cardinality({k \in 1..Len(s) : s[k] = x})

\* s and t hold the same elements, each as often
SameBag(s, t) ==
    /\ Len(s) = Len(t)
    /\ \A k \in 1..Len(s) : Count(s, s[k]) = Count(t, s[k])

\* the state is the one Exchange(t) left when it found t at index i and
\* swapped it with its neighbour
Exchanged(i) ==
    /\ last.op = "SplitEditorExchange"
    /\ ctx.request_layout = 1
    /\ LocatedAt(Swapped(children_ids, i), last.target, i)

\* ... and the step is Exchange(u) for the neighbour u
ExchangedBack(i) ==
    /\ Exchanged(i)
    /\ last'.op = "SplitEditorExchange"
    /\ last'.target = children_ids[i + 1]
    /\ last'.target # last.target

(* C35: Exchange(t) for t at index i < n - 1, followed by Exchange(u) for  *)
(* the neighbour u that was at i + 1, restores the child order and the     *)
(* registry order that held before the first, and each of the two steps    *)
(* leaves the multiset of children as it was.                              *)
C35_ExchangeRoundTrip ==
    [][/\ last'.op = "SplitEditorExchange" => SameBag(children', children)
       /\ \A i \in 0..(Len(children_ids) - 2) :
             ExchangedBack(i)
                => /\ children_ids' = Swapped(children_ids, i)
                   /\ Panes(children') = Swapped(Panes(children), i)
                   /\ editors_order' = last.order[1]
      ]_vars

\* ... where the registry order was the child order before the first
\* Exchange and the registry holds both panes
ExchangeRoundTripOfTracked ==
    [][/\ last'.op = "SplitEditorExchange" => SameBag(children', children)
       /\ \A i \in 0..(Len(children_ids) - 2) :
             (/\ ExchangedBack(i)
              /\ last.order[1] = Swapped(children_ids, i)
              /\ {last.target, last'.target} \subseteq DOMAIN editors)
                => /\ children_ids' = Swapped(children_ids, i)
                   /\ Panes(children') = Swapped(Panes(children), i)
                   /\ editors_order' = last.order[1]
      ]_vars

\* the second Exchange of such a round trip is done
ExchangeRoundTripDone ==
    /\ last.op = "SplitEditorExchange"
    /\ ctx.request_layout = 1
    /\ last.found
    /\ Len(children_ids) >= 2
    /\ children_ids[1] # children_ids[2]
    /\ last.order # None
    /\ last.order[1] # editors_order
    /\ editors_order = children_ids

----------------------------------------------------------------------------
\* the state is the one a Split left when it put the new pane at index
\* i + 1
SplitDone(i) ==
    /\ last.op = "SplitEditor"
    /\ fault = "none"
    /\ i + 2 <= Len(children_ids)
    /\ children_ids[i + 2] = FreshId(fresh)
    /\ FreshId(fresh) \in DOMAIN editors

\* ... and the step is the Close of that pane
SplitClosed(i) ==
    /\ SplitDone(i)
    /\ last'.op = "SplitEditorClose"
    /\ last'.target = FreshId(fresh)

(* C36: Split(t) followed by Close of the pane the Split created restores  *)
(* the child identity order and the registry order that held before the    *)
(* Split, and the new pane has no entry in the registry any more.          *)
C36_SplitCloseRoundTrip ==
    [][\A i \in 0..(Len(children_ids) - 2) :
          SplitClosed(i)
             => /\ children_ids' = Without(children_ids, i + 1)
                /\ editors_order' = last.order[1]
                /\ FreshId(fresh) \notin DOMAIN editors'
      ]_vars

\* ... where the registry order was the child order before the Split
SplitCloseRoundTripOfTracked ==
    [][\A i \in 0..(Len(children_ids) - 2) :
          (SplitClosed(i) /\ last.order[1] = Without(children_ids, i + 1))
             => /\ children_ids' = Without(children_ids, i + 1)
                /\ editors_order' = last.order[1]
                /\ FreshId(fresh) \notin DOMAIN editors'
      ]_vars

\* the Close of such a round trip is done
SplitCloseRoundTripDone ==
    /\ last.op = "SplitEditorClose"
    /\ last.target = FreshId(fresh)
    /\ fresh > 0
    /\ last.found
    /\ FreshId(fresh) \notin DOMAIN editors
    /\ FreshId(fresh) \notin Range(children_ids)
    /\ Len(children_ids) >= 1
    /\ editors_order = children_ids

----------------------------------------------------------------------------
\* the sizing mode of each child, and the extent a fixed child asks for
Modes(ch) ==
    [k \in 1..Len(ch) |->
        [wid |-> ch[k].wid, flex |-> ch[k].flex,
         extent |-> IF ch[k].flex THEN None ELSE Some(ch[k].params)]]

\* position by position the sizing modes of a are those of b, and a weight
\* that differs has become 1
KeptOrEvened(a, b) ==
    /\ Modes(a) = Modes(b)
    /\ \A k \in 1..Len(a) : a[k].params = b[k].params \/ a[k].params = 1

\* a is b with two neighbours in each other's place, each as it was
Exchanged2(a, b) == \E i \in 0..(Len(b) - 2) : a = Swapped(b, i)

\* the step keeps the sizing mode of every child that stays
ModesKept ==
    LET a == children'
        b == children
    IN  IF Len(a) = Len(b)
        THEN KeptOrEvened(a, b) \/ Exchanged2(a, b)
        ELSE IF Len(a) = Len(b) + 1
        THEN \E i \in 0..Len(b) : KeptOrEvened(Without(a, i), b)
        ELSE /\ Len(a) = Len(b) - 1
             /\ \E i \in 0..(Len(b) - 1) : KeptOrEvened(a, Without(b, i))

(* C37: no structural operation changes the sizing mode of a child or the  *)
(* extent a fixed child asks for; evening touches the weights of flexible  *)
(* children only; Exchange moves each pane with its own sizing mode and    *)
(* weight.                                                                 *)
C37_SizingModePreserved ==
    [][\/ children' = children
       \/ /\ ModesKept
          /\ last'.op = "SplitEditorExchange" => Exchanged2(children', children)
      ]_vars

\* a Split evened the container of a fixed child, which kept its extent
C37_Witness ==
    /\ last.op \in {"SplitEditor", "SplitTerminal"}
    /\ ctx.children_changed = 1
    /\ Len(children) >= 2
    /\ ~children[1].flex
    /\ children[1].params # 1
    /\ children[2].flex
    /\ children[2].params = 1

====
